---- MODULE Spec2Model ----
(***************************************************************************)
(* Trickle: bulk email delivery.  The model covers the job submission      *)
(* handler (backend/functions/api/email.ts, send), the delivery worker     *)
(* (backend/functions/worker/index.ts, handler) and the stores they share: *)
(* the Jobs table, the EventBridge schedules and the attachments bucket.   *)
(* Strings are sequences of one-character strings.                         *)
(***************************************************************************)
EXTENDS Integers, Sequences, FiniteSets, Bags, TLC

\* ------------------------------------------------------------------ bounds
\* Worker invocations (first firings, duplicate firings, re-invocations).
MaxInvocations == 2
\* Entries (between ';') of the recipients field drawn by InitSubmit.
MaxEntries == 3
\* Calls of the worker (Job Store updates, schedule deletes) that throw in one run.
MaxWorkerFaults == 1
\* Events stored for a job when its metrics are read.
MaxEvents == 7
\* Items that fit in the 1 MB a single Query returns.
QueryPageItems == 6
\* Notifications handed to the processor, and milliseconds its clock runs.
MaxNotifications == 3
MaxClock == 2

\* --------------------------------------------------------- program constants
MAX_RETRIES == 3
INITIAL_BACKOFF_MS == 1000
MAX_RECIPIENTS == 1000
MAX_EMAIL_LENGTH == 320
MAX_LABEL_LENGTH == 63
MAX_SUBJECT_LENGTH == 998
MAX_CONTENT_SIZE == 300000

\* ------------------------------------------------------------------ strings
Letters == {"a", "A", "b", "x"}

\* String.prototype.split(sep): "a;;b" gives ["a", "", "b"], "" gives [""].
\* The pieces lie between the positions of the separator.
Split(s, sep) ==
    LET positions == SelectSeq([i \in 1..Len(s) |-> i], LAMBDA i : s[i] = sep)
        n == Len(positions)
        From(k) == IF k = 1 THEN 1 ELSE positions[k - 1] + 1
        To(k) == IF k = n + 1 THEN Len(s) ELSE positions[k] - 1
    IN  [k \in 1..(n + 1) |-> SubSeq(s, From(k), To(k))]

RECURSIVE TrimStart(_)
TrimStart(s) ==
    IF s # <<>> /\ Head(s) = " " THEN TrimStart(Tail(s)) ELSE s

RECURSIVE TrimEnd(_)
TrimEnd(s) ==
    IF s # <<>> /\ s[Len(s)] = " " THEN TrimEnd(SubSeq(s, 1, Len(s) - 1)) ELSE s

\* String.prototype.trim()
Trim(s) == TrimEnd(TrimStart(s))

MapTrim(list) == [k \in 1..Len(list) |-> Trim(list[k])]

FilterNonEmpty(list) == SelectSeq(list, LAMBDA e : Len(e) > 0)

Elems(list) == {list[k] : k \in 1..Len(list)}

\* The positions of the first occurrences, in order.
FirstOccurrences(list) ==
    SelectSeq([k \in 1..Len(list) |-> k],
              LAMBDA k : \A j \in 1..(k - 1) : list[j] # list[k])

\* A bug that keeps the duplicates.
ArrayFromSetKeepsDuplicates(list) == list

\* Array.from(new Set(list)): first occurrences, in order, compared by ===.
ArrayFromSet(list) ==
    LET firsts == FirstOccurrences(list)
    IN  [m \in 1..Len(firsts) |-> list[firsts[m]]]

\* recipients.split(";").map(trim).filter(length > 0)
ParseRecipientList(recipients) == FilterNonEmpty(MapTrim(Split(recipients, ";")))

\* EMAIL_REGEX: local part of one or more allowed characters, "@", then
\* dot-separated labels of letters and digits (inner "-" allowed), 1 to 63 each.
LocalChars == Letters \cup {"."}

ValidLabel(l) ==
    /\ Len(l) >= 1
    /\ Len(l) <= MAX_LABEL_LENGTH
    /\ \A k \in 1..Len(l) : l[k] \in Letters

ValidDomain(d) ==
    LET labels == Split(d, ".")
    IN \A k \in 1..Len(labels) : ValidLabel(labels[k])

validateEmail(email) ==
    LET parts == Split(email, "@")
    IN /\ Len(parts) = 2
       /\ Len(parts[1]) >= 1
       /\ \A k \in 1..Len(parts[1]) : parts[1][k] \in LocalChars
       /\ ValidDomain(parts[2])
       /\ Len(email) <= MAX_EMAIL_LENGTH

\* String.prototype.toLowerCase(), on the letters of the model.
ToLowerCase(s) == [k \in 1..Len(s) |-> IF s[k] = "A" THEN "a" ELSE s[k]]

StartsWith(s, prefix) ==
    Len(prefix) <= Len(s) /\ SubSeq(s, 1, Len(prefix)) = prefix

EndsWith(s, suffix) ==
    Len(suffix) <= Len(s) /\ SubSeq(s, Len(s) - Len(suffix) + 1, Len(s)) = suffix

\* validateSubject and validateContent return the error, or null.
validateSubject(subject) ==
    IF subject = <<>> \/ Len(Trim(subject)) = 0 THEN "Subject is required"
    ELSE IF Len(subject) > MAX_SUBJECT_LENGTH THEN "Subject too long"
    ELSE "null"

\* Buffer.from(content).length is the length of a content of ASCII characters.
validateContent(content) ==
    IF content = <<>> \/ Len(Trim(content)) = 0 THEN "Content is required"
    ELSE IF Len(content) > MAX_CONTENT_SIZE THEN "Content too large"
    ELSE "null"

\* A bug that accepts every sender.
validateSenderIdentityAcceptsAll(sender, listing) == TRUE

\* validateSenderIdentity: a listing is what ListEmailIdentities answers,
\* [threw |-> TRUE] or [threw |-> FALSE, EmailIdentities |-> the names].
isVerified(senderLower, verified) ==
    \/ verified = senderLower
    \/ StartsWith(verified, <<"@">>) /\ EndsWith(senderLower, verified)
    \/ /\ "@" \in Elems(senderLower)
       /\ StartsWith(verified, <<"@">>)
       /\ Len(Split(senderLower, "@")) >= 2
       /\ Split(senderLower, "@")[2] = SubSeq(verified, 2, Len(verified))

validateSenderIdentity(sender, listing) ==
    IF listing.threw THEN TRUE
    ELSE \E id \in listing.EmailIdentities :
            isVerified(ToLowerCase(sender), ToLowerCase(id))

\* ------------------------------------------------------------------- errors
\* An error is [name: sequence of words, httpStatusCode]; String.includes is
\* the contiguous-subsequence test on the words of the name.
Includes(name, part) ==
    \E k \in 0..(Len(name) - Len(part)) : SubSeq(name, k + 1, k + Len(part)) = part

retryableErrors ==
    { <<"Throttling">>, <<"TooManyRequestsException">>, <<"ServiceUnavailable">>,
      <<"InternalServiceError">>, <<"RequestTimeout">> }

\* A bug that retries whatever the error.
isRetryableErrorAlways(error) == TRUE

isRetryableError(error) ==
    \/ \E e \in retryableErrors : Includes(error.name, e)
    \/ error.httpStatusCode = 429
    \/ error.httpStatusCode = 503
    \/ error.httpStatusCode = 504

NoError == [name |-> <<>>, httpStatusCode |-> 0]
ThrottlingException == [name |-> <<"Throttling", "Exception">>, httpStatusCode |-> 400]
GatewayTimeout == [name |-> <<"Error">>, httpStatusCode |-> 504]
MessageRejected == [name |-> <<"MessageRejected">>, httpStatusCode |-> 400]
NoSuchKey == [name |-> <<"NoSuchKey">>, httpStatusCode |-> 404]

\* What ses.send can throw.
SesErrors == {ThrottlingException, GatewayTimeout, MessageRejected}

\* -------------------------------------------------------------------- state
VARIABLES
    request,    \* the body of the submission:
                \* [sender, recipients, subject, content, attachments]
    api,        \* send(): its position and locals
    job,        \* the item of the Jobs table, NoJob before it is written
    schedules,  \* the schedules that exist: [Name, at, email, attachments]
    bucket,     \* the keys in the attachments bucket
    inv,        \* the worker invocations so far: a bag of their records
    env         \* the environment: faults injected so far, the identities
                \* verified in SES, whether listing them is denied, the clock
                \* at the submission (ms), the user's item of the Config table

\* The Event Store and what is around it.
VARIABLES
    eventStore, \* the items of the events table, one per key (jobId, timestamp)
    ingestion,  \* the ingestion handler: the clock, what it has processed
    response    \* the reader of the events: its position, input and result

jobVars == <<request, api, job, schedules, bucket, inv, env>>
eventVars == <<eventStore, ingestion, response>>
vars == <<request, api, job, schedules, bucket, inv, env, eventStore, ingestion, response>>

NoJob == [status |-> "none"]
Terminal == {"completed", "completed_with_errors", "failed"}

\* The record of an invocation that has not started.
Idle ==
    [pc |-> "idle",
     event |-> [Name |-> 0, at |-> 0, email |-> <<>>, attachments |-> <<>>],
     attempt |-> 0, error |-> NoError, outcome |-> "none",
     Attributes |-> [sent |-> 0, failed |-> 0],
     incSent |-> 0, incFailed |-> 0, wroteLastError |-> FALSE, storeThrew |-> FALSE,
     checked |-> FALSE, deleteTried |-> FALSE, deleteThrew |-> FALSE,
     \* the last failed retryable attempt of the loop and the sleep after it,
     \* kept until the counter update
     lastWait |-> [after |-> 0, ms |-> 0]]

\* The recipients fields submitted in the runs with workers.
AddrA == <<"a", "@", "x">>
AddrB == <<"b", "@", "x">>
JobRecipients ==
    { AddrA,
      AddrA \o <<";">> \o AddrA \o <<";">> \o AddrB,
      <<" ", ";", " ">> }

JobAttachments == { <<"f">> }

ApiStart ==
    [pc |-> "validate", uniqueRecipients |-> <<>>, i |-> 0,
     attachmentKeys |-> <<>>, createdSchedules |-> <<>>, statusCode |-> 0,
     \* history of the rollback, read by the properties only
     triedSchedules |-> <<>>, triedAttachments |-> <<>>,
     cleanupThrew |-> FALSE, markThrew |-> FALSE]

\* The Config table has no item of the user.
NoItem == <<>>

EnvStart ==
    [faults |-> 0, identities |-> {AddrA}, listingThrows |-> FALSE,
     now |-> 0, config |-> NoItem]

\* Nothing was ingested and nothing read.
IngestionStart == [now |-> 0, ingested |-> 0]
ResponseStart == [pc |-> "none"]

InitBody(bodies, environments) ==
    /\ request \in bodies
    /\ api = ApiStart
    /\ job = NoJob
    /\ schedules = {}
    /\ bucket = {}
    /\ inv = EmptyBag
    /\ env \in environments
    /\ eventStore = {}
    /\ ingestion = IngestionStart
    /\ response = ResponseStart

\* A submission of a verified sender with a subject and a content.
InitWith(recipientSet, attachmentSet) ==
    InitBody([sender : {AddrA}, recipients : recipientSet, subject : { <<"s">> },
              content : { <<"c">> }, attachments : attachmentSet],
             {EnvStart})

Init == InitWith(JobRecipients, JobAttachments)

\* n more calls of the worker may throw / have thrown.
CanFault(n) == env.faults + n <= MaxWorkerFaults
Fault(n) == [env EXCEPT !.faults = @ + n]

\* ------------------------------------------------------------------- send()
\* Lines 550-633: the checks made before anything is written.
Rejects(recipients) ==
    LET uniqueRecipients == ArrayFromSet(ParseRecipientList(recipients))
    IN \/ recipients = <<>>
       \/ Len(uniqueRecipients) = 0
       \/ Len(uniqueRecipients) > MAX_RECIPIENTS
       \/ \E k \in 1..Len(uniqueRecipients) : ~validateEmail(uniqueRecipients[k])

\* Lines 550-594, then the checks of the recipients.
RejectsBody(body, listing) ==
    \/ body.sender = <<>> \/ body.recipients = <<>>
    \/ body.subject = <<>> \/ body.content = <<>>
    \/ ~validateEmail(body.sender)
    \/ ~validateSenderIdentity(body.sender, listing)
    \/ validateSubject(body.subject) # "null"
    \/ validateContent(body.content) # "null"
    \/ Rejects(body.recipients)

Validate ==
    /\ api.pc = "validate"
    /\ api' = IF RejectsBody(request, [threw |-> env.listingThrows,
                                        EmailIdentities |-> env.identities])
              THEN [api EXCEPT !.pc = "done", !.statusCode = 400]
              ELSE [api EXCEPT !.pc = "putJob",
                               !.uniqueRecipients =
                                   ArrayFromSet(ParseRecipientList(request.recipients))]
    /\ UNCHANGED <<eventVars, request, job, schedules, bucket, inv, env>>

PutJob ==
    /\ api.pc = "putJob"
    /\ job' = [status |-> "pending",
               totalRecipients |-> Len(api.uniqueRecipients),
               sent |-> 0, failed |-> 0, attachments |-> <<>>,
               completedAt |-> FALSE,
               lastError |-> <<>>]
    /\ api' = [api EXCEPT !.pc = IF request.attachments = <<>>
                                 THEN "createSchedule" ELSE "upload",
                          !.i = 0]
    /\ UNCHANGED <<eventVars, request, schedules, bucket, inv, env>>

\* The PutCommand throws: the outer catch answers 500, nothing was written.
PutJobThrows ==
    /\ api.pc = "putJob"
    /\ UNCHANGED env
    /\ api' = [api EXCEPT !.pc = "done", !.statusCode = 500]
    /\ UNCHANGED <<eventVars, request, job, schedules, bucket, inv>>

\* A bug that leaves the created schedules alone.
CleanupSkipsSchedules(createdSchedules, attachmentKeys) ==
    IF attachmentKeys # <<>> THEN "cleanAttachments" ELSE "markFailed"

\* Where the catch block of lines 748-792 starts, given what was created.
CleanupPc(createdSchedules, attachmentKeys) ==
    IF createdSchedules # <<>> THEN "cleanSchedules"
    ELSE IF attachmentKeys # <<>> THEN "cleanAttachments"
    ELSE "markFailed"

Throw == [api EXCEPT !.pc = CleanupPc(api.createdSchedules, api.attachmentKeys), !.i = 0]

UploadAttachment ==
    /\ api.pc = "upload"
    /\ LET key == request.attachments[api.i + 1]
       IN /\ bucket' = bucket \cup {key}
          /\ api' = [api EXCEPT !.attachmentKeys = Append(@, key),
                                !.i = @ + 1,
                                !.pc = IF api.i + 1 = Len(request.attachments)
                                       THEN "updateJob" ELSE "upload"]
    /\ UNCHANGED <<eventVars, request, job, schedules, inv, env>>

UploadAttachmentThrows ==
    /\ api.pc = "upload"
    /\ UNCHANGED env
    /\ api' = Throw
    /\ UNCHANGED <<eventVars, request, job, schedules, bucket, inv>>

\* A bug that creates the schedules without recording the keys on the job.
UpdateJobAttachmentsSkipped ==
    /\ api.pc = "updateJob"
    /\ api' = [api EXCEPT !.pc = "createSchedule", !.i = 0]
    /\ UNCHANGED <<eventVars, request, job, schedules, bucket, inv, env>>

UpdateJobAttachments ==
    /\ api.pc = "updateJob"
    /\ job' = [job EXCEPT !.attachments = api.attachmentKeys]
    /\ api' = [api EXCEPT !.pc = "createSchedule", !.i = 0]
    /\ UNCHANGED <<eventVars, request, schedules, bucket, inv, env>>

UpdateJobAttachmentsThrows ==
    /\ api.pc = "updateJob"
    /\ UNCHANGED env
    /\ api' = Throw
    /\ UNCHANGED <<eventVars, request, job, schedules, bucket, inv>>

\* configResult.Item?.rateLimit || 60, in milliseconds (the item holds seconds,
\* which need not be whole: here <<ms>>).
RateLimit(Item) == IF Item = NoItem \/ Item[1] = 0 THEN 60 * 1000 ELSE Item[1]

\* A bug that spaces the schedules by the default whatever is configured.
ScheduleTimeDefaultRate(now, i, rateLimit) == now + i * 60 * 1000

\* new Date(now.getTime() + i * rateLimit * 1000), in milliseconds.
ScheduleTime(now, i, rateLimit) == now + i * rateLimit

\* at(scheduleTime.toISOString().slice(0, -5)): the milliseconds are cut off;
\* the time of the expression in seconds.
ScheduleExpression(scheduleTime) == scheduleTime \div 1000

CreateSchedule ==
    /\ api.pc = "createSchedule"
    /\ schedules' = schedules \cup
           { [Name |-> api.i,
              at |-> ScheduleExpression(
                         ScheduleTime(env.now, api.i, RateLimit(env.config))),
              email |-> api.uniqueRecipients[api.i + 1],
              attachments |-> api.attachmentKeys] }
    /\ api' = [api EXCEPT !.createdSchedules = Append(@, api.i),
                          !.i = @ + 1,
                          !.pc = IF api.i + 1 = Len(api.uniqueRecipients)
                                 THEN "done" ELSE "createSchedule",
                          !.statusCode = IF api.i + 1 = Len(api.uniqueRecipients)
                                         THEN 200 ELSE 0]
    /\ UNCHANGED <<eventVars, request, job, bucket, inv, env>>

CreateScheduleThrows ==
    /\ api.pc = "createSchedule"
    /\ UNCHANGED env
    /\ api' = Throw
    /\ UNCHANGED <<eventVars, request, job, schedules, bucket, inv>>

\* One turn of the loop of lines 752-759; the delete may throw, which is logged.
AfterCleanSchedule ==
    [api EXCEPT !.triedSchedules = Append(@, api.createdSchedules[api.i + 1]),
                !.i = IF api.i + 1 = Len(api.createdSchedules) THEN 0 ELSE api.i + 1,
                !.pc = IF api.i + 1 = Len(api.createdSchedules)
                       THEN CleanupPc(<<>>, api.attachmentKeys)
                       ELSE "cleanSchedules"]

CleanSchedule ==
    /\ api.pc = "cleanSchedules"
    /\ schedules' = {s \in schedules : s.Name # api.createdSchedules[api.i + 1]}
    /\ api' = AfterCleanSchedule
    /\ UNCHANGED <<eventVars, request, job, bucket, inv, env>>

CleanScheduleThrows ==
    /\ api.pc = "cleanSchedules"
    /\ UNCHANGED env
    /\ api' = [AfterCleanSchedule EXCEPT !.cleanupThrew = TRUE]
    /\ UNCHANGED <<eventVars, request, job, schedules, bucket, inv>>

AfterCleanAttachment ==
    [api EXCEPT !.triedAttachments = Append(@, api.attachmentKeys[api.i + 1]),
                !.i = IF api.i + 1 = Len(api.attachmentKeys) THEN 0 ELSE api.i + 1,
                !.pc = IF api.i + 1 = Len(api.attachmentKeys)
                       THEN "markFailed" ELSE "cleanAttachments"]

CleanAttachment ==
    /\ api.pc = "cleanAttachments"
    /\ bucket' = bucket \ {api.attachmentKeys[api.i + 1]}
    /\ api' = AfterCleanAttachment
    /\ UNCHANGED <<eventVars, request, job, schedules, inv, env>>

CleanAttachmentThrows ==
    /\ api.pc = "cleanAttachments"
    /\ UNCHANGED env
    /\ api' = [AfterCleanAttachment EXCEPT !.cleanupThrew = TRUE]
    /\ UNCHANGED <<eventVars, request, job, schedules, bucket, inv>>

\* Lines 776-789: SET #status = :status, nothing else.
MarkFailed ==
    /\ api.pc = "markFailed"
    /\ job' = [job EXCEPT !.status = "failed"]
    /\ api' = [api EXCEPT !.pc = "done", !.statusCode = 500]
    /\ UNCHANGED <<eventVars, request, schedules, bucket, inv, env>>

MarkFailedThrows ==
    /\ api.pc = "markFailed"
    /\ UNCHANGED env
    /\ api' = [api EXCEPT !.pc = "done", !.statusCode = 500, !.markThrew = TRUE]
    /\ UNCHANGED <<eventVars, request, job, schedules, bucket, inv>>

NextSubmit ==
    \/ Validate
    \/ PutJob
    \/ PutJobThrows
    \/ UploadAttachment
    \/ UploadAttachmentThrows
    \/ UpdateJobAttachments
    \/ UpdateJobAttachmentsThrows
    \/ CreateSchedule
    \/ CreateScheduleThrows
    \/ CleanSchedule
    \/ CleanScheduleThrows
    \/ CleanAttachment
    \/ CleanAttachmentThrows
    \/ MarkFailed
    \/ MarkFailedThrows


\* ---------------------------------------------------------------- handler()
\* UpdateExpression "SET c = :inc": a bug that overwrites instead of adding.
UpdateSetOverwrites(counter, inc) == inc

\* UpdateExpression "SET c = c + :inc", applied atomically by the store.
UpdateSetAdd(counter, inc) == counter + inc

\* A bug that waits for one update more than there are recipients.
JobCompleteStrict(sent, failed, totalRecipients) == sent + failed > totalRecipients

\* A bug that finalizes one recipient early.
JobCompleteEarly(sent, failed, totalRecipients) == sent + failed + 1 >= totalRecipients

\* Lines 65 and 128: the completion test on the counters returned by the update.
JobComplete(sent, failed, totalRecipients) == sent + failed >= totalRecipients

\* Line 75: the status written by the success path.
FinalStatus(failed) == IF failed > 0 THEN "completed_with_errors" ELSE "completed"

Bag1(r) == SetToBag({r})
Invocations == BagToSet(inv)

\* The invocation r goes on as r2.
Becomes(r, r2) == inv' = (inv (-) Bag1(r)) (+) Bag1(r2)

Start(event) == [Idle EXCEPT !.pc = "send", !.event = event]

\* A schedule fires (for the first time or again) and invokes the handler.
Fire(s) ==
    /\ BagCardinality(inv) < MaxInvocations
    /\ s \in schedules
    /\ inv' = inv (+) Bag1(Start(s))
    /\ UNCHANGED <<eventVars, request, api, job, schedules, bucket, env>>

\* The hosting layer invokes the handler again with the event of an invocation
\* that threw (line 147).
ReInvoke(r) ==
    /\ BagCardinality(inv) < MaxInvocations
    /\ r.pc = "threw"
    /\ inv' = (inv (-) Bag1(r)) (+) Bag1([r EXCEPT !.pc = "retried"])
                  (+) Bag1(Start(r.event))
    /\ UNCHANGED <<eventVars, request, api, job, schedules, bucket, env>>

\* sendEmail fetches every attachment of the payload before it calls SES.
AttachmentsPresent(r) == \A k \in 1..Len(r.event.attachments) :
                             r.event.attachments[k] \in bucket

\* Lines 36-47 and 92-101: the DeleteScheduleCommand for the schedule of the
\* event, which deletes it or throws (logged, the handler goes on).  The
\* attempts of the send touch no shared state, so the delete is taken in one
\* step with the end of the send (or with the throw that enters the catch).
DeleteSchedule(r, deleted) ==
    schedules' = IF deleted THEN {s \in schedules : s.Name # r.event.Name}
                 ELSE schedules

Throws(deleted) == IF deleted THEN 0 ELSE 1

\* A bug that lets the error of the DeleteScheduleCommand end the handler.
AfterDeleteRethrows(r, deleted) ==
    IF deleted THEN [r EXCEPT !.deleteTried = TRUE]
    ELSE [r EXCEPT !.pc = "threw", !.deleteTried = TRUE, !.deleteThrew = TRUE]

\* The invocation after the try/catch around its DeleteScheduleCommand (lines
\* 37-47, 93-101): it goes on, whether the command threw or not (history).
AfterDelete(r, deleted) ==
    [r EXCEPT !.deleteTried = TRUE, !.deleteThrew = @ \/ ~deleted]

\* The retryable errors as the specification names them: a name containing an
\* allow-listed signature, or HTTP status 429, 503 or 504.
ClaimedRetryable(error) ==
    \/ \E e \in retryableErrors : Includes(error.name, e)
    \/ error.httpStatusCode \in {429, 503, 504}

\* How the send of an invocation ended (history, read by the properties only).
OutcomeOk(attempt) == IF attempt = 2 THEN "ok_on_attempt_3" ELSE "ok"
OutcomeFailed(attempt, error) ==
    IF attempt = 0 /\ ~ClaimedRetryable(error) THEN "failed_attempt_1_not_retryable"
    ELSE "failed"
SendOk(r) == r.outcome \in {"ok", "ok_on_attempt_3"}
SendFailed(r) == r.outcome \in {"failed", "failed_attempt_1_not_retryable"}

\* A bug that lets the success of the last attempt fall through to the throw
\* that follows the loop.
AfterAttemptLastFallsThrough(r) ==
    [r EXCEPT !.pc = IF r.attempt = MAX_RETRIES - 1 THEN "incrementFailed"
                     ELSE "incrementSent",
              !.outcome = OutcomeOk(r.attempt), !.attempt = 0, !.error = NoError]

\* What the loop of sendEmailWithRetry does when sendEmail returns (line 182).
AfterAttempt(r) ==
    [r EXCEPT !.pc = "incrementSent", !.outcome = OutcomeOk(r.attempt),
              !.attempt = 0, !.error = NoError, !.lastWait = Idle.lastWait]

\* A bug that waits the same time before every attempt.
BackoffConstant(attempt) == INITIAL_BACKOFF_MS

\* Line 200: INITIAL_BACKOFF_MS * Math.pow(2, attempt).
Backoff(attempt) == INITIAL_BACKOFF_MS * 2 ^ attempt

\* A bug that retries once more than MAX_RETRIES allows.
AfterFailedAttemptOneMore(r, error) ==
    IF ~isRetryableError(error) \/ r.attempt = MAX_RETRIES
    THEN [r EXCEPT !.pc = "incrementFailed", !.outcome = OutcomeFailed(r.attempt, error),
                   !.attempt = 0, !.error = NoError]
    ELSE [r EXCEPT !.attempt = @ + 1, !.error = error]

\* What the loop does with the error of a failed attempt (lines 183-203): it
\* throws a non-retryable error and the error of the last attempt, and goes on
\* to the next attempt otherwise.
AfterFailedAttempt(r, error) ==
    IF ~isRetryableError(error) \/ r.attempt = MAX_RETRIES - 1
    THEN [r EXCEPT !.pc = "incrementFailed", !.outcome = OutcomeFailed(r.attempt, error),
                   !.attempt = 0, !.error = NoError,
                   !.lastWait = IF isRetryableError(error)
                                THEN [after |-> r.attempt + 1, ms |-> 0]
                                ELSE Idle.lastWait]
    ELSE [r EXCEPT !.attempt = @ + 1, !.error = error,
                   !.lastWait = [after |-> r.attempt + 1, ms |-> Backoff(r.attempt)]]

\* An attempt in which sendEmail returns: the loop ends, the schedule is deleted.
SendSucceeds(r, deleted) ==
    /\ r.pc = "send"
    /\ AttachmentsPresent(r)
    /\ CanFault(Throws(deleted))
    /\ env' = Fault(Throws(deleted))
    /\ Becomes(r, AfterDelete(AfterAttempt(r), deleted))
    /\ DeleteSchedule(r, deleted)
    /\ UNCHANGED <<eventVars, request, api, job, bucket>>

\* An attempt in which sendEmail throws and the loop goes on after the backoff.
SendFailsRetry(r, error) ==
    /\ r.pc = "send"
    /\ IF AttachmentsPresent(r) THEN error \in SesErrors ELSE error = NoSuchKey
    /\ AfterFailedAttempt(r, error).pc = "send"
    /\ Becomes(r, AfterFailedAttempt(r, error))
    /\ UNCHANGED <<eventVars, request, api, job, schedules, bucket, env>>

\* An attempt in which sendEmail throws and the loop throws: the catch block
\* of the handler deletes the schedule.
SendFailsThrow(r, error, deleted) ==
    /\ r.pc = "send"
    /\ IF AttachmentsPresent(r) THEN error \in SesErrors ELSE error = NoSuchKey
    /\ AfterFailedAttempt(r, error).pc # "send"
    /\ CanFault(Throws(deleted))
    /\ env' = Fault(Throws(deleted))
    /\ Becomes(r, AfterDelete(AfterFailedAttempt(r, error), deleted))
    /\ DeleteSchedule(r, deleted)
    /\ UNCHANGED <<eventVars, request, api, job, bucket>>

\* A Job Store call of the try block throws: the catch block takes over.
Caught(r) == [r EXCEPT !.pc = "incrementFailed", !.storeThrew = TRUE,
                       !.Attributes = Idle.Attributes]

\* A Job Store call of the catch block throws: the handler rejects.
Rejected(r) == [r EXCEPT !.pc = "threw", !.storeThrew = TRUE, !.Attributes = Idle.Attributes,
                         !.lastWait = Idle.lastWait]

\* What the handler does with the item the update returned (lines 63-65, 126-128).
AfterUpdate(r, item, pcFinalize, pcEnd) ==
    IF JobComplete(item.sent, item.failed, item.totalRecipients)
    THEN [r EXCEPT !.pc = pcFinalize, !.checked = TRUE, !.lastWait = Idle.lastWait,
                   !.Attributes = [sent |-> item.sent, failed |-> item.failed]]
    ELSE [r EXCEPT !.pc = pcEnd, !.checked = TRUE, !.lastWait = Idle.lastWait]

\* Lines 49-65.
IncrementSent(r) ==
    /\ r.pc = "incrementSent"
    /\ job' = [job EXCEPT !.sent = UpdateSetAdd(@, 1)]
    /\ Becomes(r, AfterUpdate([r EXCEPT !.incSent = @ + (job'.sent - job.sent)],
                              job', "finalize", "returned"))
    /\ UNCHANGED <<eventVars, request, api, schedules, bucket, env>>

IncrementSentThrows(r, deleted) ==
    /\ r.pc = "incrementSent"
    /\ CanFault(1 + Throws(deleted))
    /\ env' = Fault(1 + Throws(deleted))
    /\ Becomes(r, AfterDelete(Caught(r), deleted))
    /\ DeleteSchedule(r, deleted)
    /\ UNCHANGED <<eventVars, request, api, job, bucket>>

\* Lines 66-79.
Finalize(r) ==
    /\ r.pc = "finalize"
    /\ job' = [job EXCEPT !.status = FinalStatus(r.Attributes.failed),
                          !.completedAt = TRUE]
    /\ Becomes(r, [r EXCEPT !.pc = "returned", !.Attributes = Idle.Attributes])
    /\ UNCHANGED <<eventVars, request, api, schedules, bucket, env>>

FinalizeThrows(r, deleted) ==
    /\ r.pc = "finalize"
    /\ CanFault(1 + Throws(deleted))
    /\ env' = Fault(1 + Throws(deleted))
    /\ Becomes(r, AfterDelete(Caught(r), deleted))
    /\ DeleteSchedule(r, deleted)
    /\ UNCHANGED <<eventVars, request, api, job, bucket>>

\* A bug that swallows the error of the send after the bookkeeping.
IncrementFailedAndReturn(r) ==
    /\ r.pc = "incrementFailed"
    /\ job' = [job EXCEPT !.failed = UpdateSetAdd(@, 1),
                          !.lastError = r.event.email]
    /\ Becomes(r, AfterUpdate([r EXCEPT !.incFailed = @ + (job'.failed - job.failed),
                                       !.wroteLastError = TRUE],
                              job', "finalizeFailed", "returned"))
    /\ UNCHANGED <<eventVars, request, api, schedules, bucket, env>>

\* Lines 103-128.
IncrementFailed(r) ==
    /\ r.pc = "incrementFailed"
    /\ job' = [job EXCEPT !.failed = UpdateSetAdd(@, 1),
                          !.lastError = r.event.email]
    /\ Becomes(r, AfterUpdate([r EXCEPT !.incFailed = @ + (job'.failed - job.failed),
                                       !.wroteLastError = TRUE],
                              job', "finalizeFailed", "threw"))
    /\ UNCHANGED <<eventVars, request, api, schedules, bucket, env>>

IncrementFailedThrows(r) ==
    /\ r.pc = "incrementFailed"
    /\ CanFault(1)
    /\ env' = Fault(1)
    /\ Becomes(r, Rejected(r))
    /\ UNCHANGED <<eventVars, request, api, job, schedules, bucket>>

\* Lines 129-147.
FinalizeFailed(r) ==
    /\ r.pc = "finalizeFailed"
    /\ job' = [job EXCEPT !.status = "completed_with_errors", !.completedAt = TRUE]
    /\ Becomes(r, [r EXCEPT !.pc = "threw", !.Attributes = Idle.Attributes])
    /\ UNCHANGED <<eventVars, request, api, schedules, bucket, env>>

FinalizeFailedThrows(r) ==
    /\ r.pc = "finalizeFailed"
    /\ CanFault(1)
    /\ env' = Fault(1)
    /\ Becomes(r, Rejected(r))
    /\ UNCHANGED <<eventVars, request, api, job, schedules, bucket>>

SendErrors == SesErrors \cup {NoSuchKey}

NextWorker ==
    \/ \E s \in schedules : Fire(s)
    \/ \E r \in Invocations : ReInvoke(r)
    \/ \E r \in Invocations, deleted \in BOOLEAN : SendSucceeds(r, deleted)
    \/ \E r \in Invocations, error \in SendErrors : SendFailsRetry(r, error)
    \/ \E r \in Invocations, error \in SendErrors, deleted \in BOOLEAN :
           SendFailsThrow(r, error, deleted)
    \/ \E r \in Invocations : IncrementSent(r)
    \/ \E r \in Invocations, deleted \in BOOLEAN : IncrementSentThrows(r, deleted)
    \/ \E r \in Invocations : Finalize(r)
    \/ \E r \in Invocations, deleted \in BOOLEAN : FinalizeThrows(r, deleted)
    \/ \E r \in Invocations : IncrementFailed(r)
    \/ \E r \in Invocations : IncrementFailedThrows(r)
    \/ \E r \in Invocations : FinalizeFailed(r)
    \/ \E r \in Invocations : FinalizeFailedThrows(r)

Next == NextSubmit \/ NextWorker

Spec == Init /\ [][Next]_vars

\* The runs checked for progress: at most one call of a worker throws.
InitFair ==
    InitBody([sender : {AddrA}, recipients : JobRecipients, subject : { <<"s">> },
              content : { <<"c">> }, attachments : JobAttachments],
             {[EnvStart EXCEPT !.faults = MaxWorkerFaults - 1]})

\* The invocations run to their end and the hosting layer fires the schedules
\* and retries: a step of the workers that stays possible is taken.
SpecFair == InitFair /\ [][Next]_vars /\ WF_vars(NextWorker)


\* ------------------------------------------------- submissions, without workers
\* The entries (between ';') the recipients fields are made of.
Pieces ==
    { AddrA, AddrB, <<"A", "@", "x">>, <<" ">> \o AddrA, AddrA \o <<" ">>, <<>>, <<" ">>,
      <<"a", " ", "x">> }

RECURSIVE Join(_, _)
Join(list, sep) ==
    IF list = <<>> THEN <<>>
    ELSE IF Len(list) = 1 THEN Head(list)
    ELSE Head(list) \o <<sep>> \o Join(Tail(list), sep)

RecipientFields ==
    UNION { {Join(list, ";") : list \in [1..n -> Pieces]} : n \in 1..MaxEntries }

InitSubmit == InitWith(RecipientFields, {<<>>, <<"f">>})

SpecSubmit == InitSubmit /\ [][NextSubmit]_vars

\* --------------------------------------------- submissions that may be rejected
\* A subject of MAX_SUBJECT_LENGTH + 1 characters, a content of
\* MAX_CONTENT_SIZE + 1 bytes.
LongSubject == [k \in 1..(MAX_SUBJECT_LENGTH + 1) |-> "s"]
LargeContent == [k \in 1..(MAX_CONTENT_SIZE + 1) |-> "c"]

\* MAX_RECIPIENTS + 1 well-formed addresses, all different: the k-th has the
\* five letters that spell k in base 4, then "@x".
LetterOf == <<"a", "A", "b", "x">>
Pow4 == <<1, 4, 16, 64, 256>>
TooManyRecipients ==
    [p \in 1..((MAX_RECIPIENTS + 1) * 8 - 1) |->
        LET k == (p - 1) \div 8
            o == (p - 1) % 8
        IN  IF o < 5 THEN LetterOf[((k \div Pow4[o + 1]) % 4) + 1]
            ELSE IF o = 5 THEN "@"
            ELSE IF o = 6 THEN "x"
            ELSE ";"]

ValidBody ==
    [sender |-> AddrA, recipients |-> AddrA \o <<";">> \o AddrB, subject |-> <<"s">>,
     content |-> <<"c">>, attachments |-> <<"f">>]

\* Bodies with every combination of small fields, and the valid body with one
\* field over its limit.
Bodies ==
    [sender : {AddrA, <<"A", "@", "x">>, AddrB, <<"a", "x">>, <<>>},
     recipients : {<<>>, AddrA, AddrA \o <<";">> \o AddrB, <<" ", ";">>,
                   AddrB \o <<";">> \o <<"a", "x">>},
     subject : {<<>>, <<" ">>, <<"s">>},
     content : {<<>>, <<" ">>, <<"c">>},
     attachments : {<<>>, <<"f">>}]
    \cup { [ValidBody EXCEPT !.subject = LongSubject],
           [ValidBody EXCEPT !.content = LargeContent],
           [ValidBody EXCEPT !.recipients = TooManyRecipients] }

\* What SES lists as verified: nothing, the address, its domain as "@x", its
\* domain as "x".
IdentitySets == { {}, {AddrA}, { <<"@", "x">> }, { <<"x">> } }

InitValidate ==
    InitBody(Bodies, [faults : {0}, identities : IdentitySets, listingThrows : BOOLEAN,
                      now : {0}, config : {NoItem}])

SpecValidate == InitValidate /\ [][NextSubmit]_vars

\* ------------------------------------------------- submissions that roll back
\* Four different recipients, so that a fourth schedule can fail after three
\* were created; none, one or two attachments.
FourRecipients ==
    Join(<<AddrA, AddrB, <<"x", "@", "x">>, <<"b", "@", "a">> >>, ";")

InitRollback ==
    InitBody([sender : {AddrA}, recipients : {AddrA, FourRecipients}, subject : { <<"s">> },
              content : { <<"c">> }, attachments : {<<>>, <<"f">>, <<"f", "g">>}],
             {EnvStart})

SpecRollback == InitRollback /\ [][NextSubmit]_vars

\* ------------------------------------------------ submissions and their times
\* Clocks on and off a whole second; no configured interval, intervals of 1,
\* 1.5 and 3600 seconds.
Clocks == {0, 700, 1000, 1999}
Configs == {NoItem, <<1000>>, <<1500>>, <<3600000>>}

InitSchedule ==
    InitBody([sender : {AddrA}, recipients : {AddrA, FourRecipients}, subject : { <<"s">> },
              content : { <<"c">> }, attachments : {<<>>, <<"f">>}],
             [faults : {0}, identities : {EnvStart.identities}, listingThrows : {FALSE},
              now : Clocks, config : Configs])

SpecSchedule == InitSchedule /\ [][NextSubmit]_vars

\* -------------------------------------------------------------- the classifier
\* event-classifier.ts.  A field that is undefined holds "undefined"; a
\* classification is [severity, category, requiresAction, interpretation], its
\* category "undefined" when the object has none.
Undefined == "undefined"

\* A bug that takes a suppressed address for a soft bounce.
classifyBounceSuppressedSoft(bounceType, bounceSubType, diagnosticCode) ==
    IF bounceType = "Permanent" /\ bounceSubType # "Suppressed"
    THEN [severity |-> "critical", category |-> "hard", requiresAction |-> TRUE,
          interpretation |-> "Permanent bounce"]
    ELSE [severity |-> "warning", category |-> "soft", requiresAction |-> FALSE,
          interpretation |-> "Temporary delivery issue"]

classifyBounce(bounceType, bounceSubType, diagnosticCode) ==
    IF bounceType = "Permanent"
    THEN [severity |-> "critical", category |-> "hard", requiresAction |-> TRUE,
          interpretation |->
              CASE bounceSubType = "NoEmail" ->
                       "No email address associated with this recipient"
                [] bounceSubType = "Suppressed" ->
                       "Address is on your SES suppression list"
                [] bounceSubType = "OnAccountSuppressionList" ->
                       "Address is on your account suppression list"
                [] OTHER -> "Permanent bounce - invalid or non-existent address"]
    ELSE IF bounceType = "Transient"
    THEN [severity |-> "warning", category |-> "soft", requiresAction |-> FALSE,
          interpretation |->
              CASE bounceSubType = "MailboxFull" -> "Recipient's mailbox is full"
                [] bounceSubType = "MessageTooLarge" ->
                       "Email size exceeds recipient server limits"
                [] bounceSubType = "ContentRejected" -> "Email content was rejected"
                [] bounceSubType = "AttachmentRejected" -> "Attachment type not accepted"
                [] bounceSubType = "ServiceUnavailable" ->
                       "Recipient server temporarily unavailable"
                [] bounceSubType = "MailFromDomainNotVerified" ->
                       "Sending domain not verified with recipient"
                [] OTHER -> "Temporary delivery issue"]
    ELSE [severity |-> "info", category |-> "unknown", requiresAction |-> FALSE,
          interpretation |-> "Bounce event"]

classifyComplaint(complaintCount) ==
    [severity |-> "critical", category |-> Undefined, requiresAction |-> TRUE,
     interpretation |-> IF complaintCount > 1
                        THEN "Recipient marked email as spam (recipients)"
                        ELSE "Recipient marked email as spam"]

classifyDelivery ==
    [severity |-> "info", category |-> Undefined, requiresAction |-> FALSE,
     interpretation |-> "Email successfully delivered to recipient"]

classifySend ==
    [severity |-> "info", category |-> Undefined, requiresAction |-> FALSE,
     interpretation |-> "Email successfully sent from SES"]

classifyOpen ==
    [severity |-> "info", category |-> Undefined, requiresAction |-> FALSE,
     interpretation |-> "Recipient opened the email"]

classifyClick ==
    [severity |-> "info", category |-> Undefined, requiresAction |-> FALSE,
     interpretation |-> "Recipient clicked a link in the email"]

\* A reason is the sequence of its words in lower case, empty when there is
\* no reason; reason?.toLowerCase().includes(word) looks for the word.
ReasonIncludes(reason, word) == word \in Elems(reason)

\* A bug that asks for no action when the reason is not understood.
classifyRejectByReason(reason, reasonCode) ==
    [severity |-> "warning", category |-> Undefined,
     requiresAction |-> \E w \in {"config", "content", "reputation"} :
                            ReasonIncludes(reason, w),
     interpretation |-> "SES rejected email before sending"]

classifyReject(reason, reasonCode) ==
    [severity |-> "warning", category |-> Undefined, requiresAction |-> TRUE,
     interpretation |->
         IF ReasonIncludes(reason, "config") THEN "Configuration issue prevents sending"
         ELSE IF ReasonIncludes(reason, "content") THEN "Email content was rejected"
         ELSE IF ReasonIncludes(reason, "reputation")
              THEN "SES blocked due to account reputation"
         ELSE "SES rejected email before sending"]

classifyDeliveryDelay(delayType, processingTimeMillis) ==
    [severity |-> "info", category |-> Undefined, requiresAction |-> FALSE,
     interpretation |-> IF delayType = "Temporary" THEN "Temporary delivery delay"
                        ELSE "Email delivery is delayed"]

classifyEvent(event) ==
    LET details == event.details
    IN  CASE event.eventType = "Bounce" ->
                 classifyBounce(details.bounceType, details.bounceSubType,
                                details.diagnosticCode)
          [] event.eventType = "Complaint" ->
                 classifyComplaint(details.complainedRecipientCount)
          [] event.eventType = "Delivery" -> classifyDelivery
          [] event.eventType = "Send" -> classifySend
          [] event.eventType = "Open" -> classifyOpen
          [] event.eventType = "Click" -> classifyClick
          [] event.eventType = "Reject" ->
                 classifyReject(details.reason, details.reasonCode)
          [] event.eventType = "DeliveryDelay" ->
                 classifyDeliveryDelay(details.delayType, details.processingTimeMillis)
          [] OTHER ->
                 [severity |-> "info", category |-> Undefined, requiresAction |-> FALSE,
                  interpretation |-> "Email event"]

\* The details of an event that has none.
NoDetails ==
    [bounceType |-> Undefined, bounceSubType |-> Undefined, diagnosticCode |-> Undefined,
     complainedRecipientCount |-> 0, reason |-> <<>>, reasonCode |-> Undefined,
     delayType |-> Undefined, processingTimeMillis |-> 0]

BounceTypes == {"Permanent", "Transient", "Undetermined", Undefined}
BounceSubTypes ==
    {"NoEmail", "Suppressed", "OnAccountSuppressionList", "General", "MailboxFull",
     "MessageTooLarge", "ContentRejected", "AttachmentRejected", "ServiceUnavailable",
     "MailFromDomainNotVerified", "Undetermined", Undefined}
Reasons ==
    {<<>>, <<"bad", "content">>, <<"config", "set", "missing">>,
     <<"low", "reputation">>, <<"quota">>}

Details(eventType) ==
    CASE eventType = "Bounce" ->
             { [NoDetails EXCEPT !.bounceType = t, !.bounceSubType = st,
                                 !.diagnosticCode = dc] :
                 t \in BounceTypes, st \in BounceSubTypes,
                 dc \in {Undefined, "smtp; 550 5.1.1"} }
      [] eventType = "Complaint" ->
             { [NoDetails EXCEPT !.complainedRecipientCount = n] : n \in {0, 1, 3} }
      [] eventType = "Reject" ->
             { [NoDetails EXCEPT !.reason = rs, !.reasonCode = rc] :
                 rs \in Reasons, rc \in {Undefined, "R1"} }
      [] eventType = "DeliveryDelay" ->
             { [NoDetails EXCEPT !.delayType = t] :
                 t \in {"Temporary", "InternalFailure", Undefined} }
      [] OTHER -> {NoDetails}

KnownEventTypes ==
    {"Send", "Delivery", "Bounce", "Complaint", "Reject", "DeliveryDelay", "Open", "Click"}
EventTypes == KnownEventTypes \cup {"Rendering Failure", "Subscription"}

EmailEvents ==
    UNION { {[eventType |-> et, details |-> d] : d \in Details(et)} : et \in EventTypes }

\* The reader classifies the event it was given.
Classify ==
    /\ response.pc = "event"
    /\ response' = [pc |-> "classified", event |-> response.event,
                    classification |-> classifyEvent(response.event)]
    /\ UNCHANGED <<jobVars, eventStore, ingestion>>

InitClassify ==
    /\ request = ValidBody
    /\ api = ApiStart
    /\ job = NoJob
    /\ schedules = {}
    /\ bucket = {}
    /\ inv = EmptyBag
    /\ env = EnvStart
    /\ eventStore = {}
    /\ ingestion = IngestionStart
    /\ response \in [pc : {"event"}, event : EmailEvents]

SpecClassify == InitClassify /\ [][Classify]_vars

\* ---------------------------------------------------- the readers of the events
\* An item of the events table: [jobId, timestamp, eventType, details].
ItemsOf(store, jobId) == {item \in store : item.jobId = jobId}

\* The items of a partition in the order of their sort key.
RECURSIVE Ascending(_)
Ascending(items) ==
    IF items = {} THEN <<>>
    ELSE LET first == CHOOSE i \in items : \A j \in items : i.timestamp <= j.timestamp
         IN  <<first>> \o Ascending(items \ {first})

Reverse(list) == [k \in 1..Len(list) |-> list[Len(list) + 1 - k]]

Min(a, b) == IF a < b THEN a ELSE b

\* QueryCommand with KeyConditionExpression jobId = :jobId: the Items of the
\* first page, which holds what fits in the Limit (a set, empty when the
\* command has none) and in 1 MB. LastEvaluatedKey is what the callers do
\* with it.
Query(store, jobId, ScanIndexForward, Limit) ==
    LET all == IF ScanIndexForward THEN Ascending(ItemsOf(store, jobId))
               ELSE Reverse(Ascending(ItemsOf(store, jobId)))
        fits == IF Limit = {} THEN QueryPageItems
                ELSE Min(CHOOSE l \in Limit : TRUE, QueryPageItems)
    IN  SubSeq(all, 1, Min(Len(all), fits))

\* A bug that divides whatever totalRecipients is (x / 0, which is no 0, shown as x / 1).
RateUnguarded(count, totalRecipients) ==
    [num |-> count, den |-> IF totalRecipients > 0 THEN totalRecipients ELSE 1]

\* A rate is the fraction [num, den]; count / total in floating point compares
\* with the thresholds as the fraction does.
Rate(count, totalRecipients) ==
    IF totalRecipients > 0 THEN [num |-> count, den |-> totalRecipients]
    ELSE [num |-> 0, den |-> 1]

\* rate > p / q
Exceeds(rate, p, q) == rate.num * q > p * rate.den

\* A bug that adds the mild warning to the critical one.
HardBounceWarningsBoth(hardBounceRate) ==
    (IF Exceeds(hardBounceRate, 5, 100) THEN <<"High hard bounce rate">> ELSE <<>>)
    \o (IF Exceeds(hardBounceRate, 2, 100) THEN <<"Hard bounce rate">> ELSE <<>>)

\* Lines 74-84 and 86-92: the warnings of each metric.
HardBounceWarnings(hardBounceRate) ==
    IF Exceeds(hardBounceRate, 5, 100) THEN <<"High hard bounce rate">>
    ELSE IF Exceeds(hardBounceRate, 2, 100) THEN <<"Hard bounce rate">>
    ELSE <<>>

ComplaintWarnings(complaintRate) ==
    IF Exceeds(complaintRate, 3, 1000) THEN <<"Critical: Spam complaint rate">>
    ELSE IF Exceeds(complaintRate, 1, 1000) THEN <<"Complaint rate">>
    ELSE <<>>

IsHardBounce(item) == item.eventType = "Bounce" /\ item.details.bounceType = "Permanent"
IsSoftBounce(item) == item.eventType = "Bounce" /\ item.details.bounceType = "Transient"
IsComplaint(item) == item.eventType = "Complaint"
IsReject(item) == item.eventType = "Reject"

\* Lines 42-102 of computeJobMetrics, from the Items of its Query.
MetricsOf(Items, totalRecipients) ==
    LET hardBounceCount == Cardinality({k \in 1..Len(Items) : IsHardBounce(Items[k])})
        complaintCount == Cardinality({k \in 1..Len(Items) : IsComplaint(Items[k])})
        hardBounceRate == Rate(hardBounceCount, totalRecipients)
        complaintRate == Rate(complaintCount, totalRecipients)
    IN  [hardBounceCount |-> hardBounceCount,
         softBounceCount |-> Cardinality({k \in 1..Len(Items) : IsSoftBounce(Items[k])}),
         complaintCount |-> complaintCount,
         rejectCount |-> Cardinality({k \in 1..Len(Items) : IsReject(Items[k])}),
         totalEventCount |-> Len(Items),
         hardBounceRate |-> hardBounceRate,
         complaintRate |-> complaintRate,
         warnings |-> HardBounceWarnings(hardBounceRate) \o ComplaintWarnings(complaintRate)]

\* Lines 103-115: what the catch returns.
ZeroMetrics ==
    [hardBounceCount |-> 0, softBounceCount |-> 0, complaintCount |-> 0,
     rejectCount |-> 0, totalEventCount |-> 0, hardBounceRate |-> Rate(0, 0),
     complaintRate |-> Rate(0, 0), warnings |-> <<>>]

\* logs(): query the page of the log, classify its events.
ClassifiedEvents(Items) ==
    [k \in 1..Len(Items) |-> [email |-> Items[k], classification |-> classifyEvent(Items[k])]]

LogsQuery ==
    /\ response.pc = "logs"
    /\ response' = [response EXCEPT
           !.pc = "metrics", !.queried = TRUE,
           !.events = ClassifiedEvents(Query(eventStore, response.jobId, FALSE, {response.limit}))]
    /\ UNCHANGED <<jobVars, eventStore, ingestion>>

LogsQueryThrows ==
    /\ response.pc = "logs"
    /\ response' = [response EXCEPT !.pc = "done", !.statusCode = 500]
    /\ UNCHANGED <<jobVars, eventStore, ingestion>>

\* A bug that lets the error of the metrics reach the catch of logs().
LogsAfterMetricsErrorFails(resp) ==
    [resp EXCEPT !.pc = "done", !.statusCode = 500, !.events = <<>>, !.metricsThrew = TRUE]

\* computeJobMetrics caught the error of its Query: logs() goes on.
LogsAfterMetricsError(resp) ==
    [resp EXCEPT !.pc = "done", !.statusCode = 200, !.jobMetrics = ZeroMetrics,
                 !.metricsThrew = TRUE]

ComputeJobMetrics ==
    /\ response.pc = "metrics"
    /\ response' = [response EXCEPT
           !.pc = "done", !.statusCode = 200,
           !.jobMetrics = MetricsOf(Query(eventStore, response.jobId, TRUE, {}),
                                    response.totalRecipients)]
    /\ UNCHANGED <<jobVars, eventStore, ingestion>>

ComputeJobMetricsThrows ==
    /\ response.pc = "metrics"
    /\ response' = LogsAfterMetricsError(response)
    /\ UNCHANGED <<jobVars, eventStore, ingestion>>

NextLogs == LogsQuery \/ LogsQueryThrows \/ ComputeJobMetrics \/ ComputeJobMetricsThrows

\* The stores the readers are checked on: a job with some events of each kind,
\* each under a timestamp of its own, next to an event of another job.
EventKinds ==
    <<[eventType |-> "Bounce", details |-> [NoDetails EXCEPT !.bounceType = "Permanent"]],
      [eventType |-> "Bounce", details |-> [NoDetails EXCEPT !.bounceType = "Transient"]],
      [eventType |-> "Bounce", details |-> [NoDetails EXCEPT !.bounceType = "Undetermined"]],
      [eventType |-> "Complaint", details |-> [NoDetails EXCEPT !.complainedRecipientCount = 1]],
      [eventType |-> "Reject", details |-> [NoDetails EXCEPT !.reason = <<"bad", "content">>]],
      [eventType |-> "Send", details |-> NoDetails]>>

RECURSIVE SumTo(_, _)
SumTo(counts, i) == IF i = 0 THEN 0 ELSE counts[i] + SumTo(counts, i - 1)

EventCounts ==
    {counts \in [1..Len(EventKinds) -> 0..MaxEvents] :
        SumTo(counts, Len(EventKinds)) <= MaxEvents}

KindAt(counts, k) == CHOOSE i \in 1..Len(EventKinds) : SumTo(counts, i - 1) < k /\ k <= SumTo(counts, i)

Item(jobId, timestamp, kind) ==
    [jobId |-> jobId, timestamp |-> timestamp, eventType |-> kind.eventType,
     details |-> kind.details]

StoreOf(counts) ==
    {Item("J1", k, EventKinds[KindAt(counts, k)]) : k \in 1..SumTo(counts, Len(EventKinds))}
    \cup {Item("J2", 1, EventKinds[1])}

TotalRecipientsInputs == {0 - 1, 0, 19, 20, 49, 50, 100, 333, 334, 999, 1000}

InitMetrics ==
    /\ request = ValidBody
    /\ api = ApiStart
    /\ job = NoJob
    /\ schedules = {}
    /\ bucket = {}
    /\ inv = EmptyBag
    /\ env = EnvStart
    /\ eventStore \in {StoreOf(counts) : counts \in EventCounts}
    /\ ingestion = IngestionStart
    /\ response \in [pc : {"logs"}, jobId : {"J1"}, limit : {100},
                      totalRecipients : TotalRecipientsInputs, events : {<<>>},
                      jobMetrics : {ZeroMetrics}, statusCode : {0},
                      queried : {FALSE}, metricsThrew : {FALSE}]

SpecMetrics == InitMetrics /\ [][NextLogs]_vars

\* ------------------------------------------------- the processor of the events
\* The primary key of the events table: partition key jobId, sort key
\* timestamp.
Key(item) == <<item.jobId, item.timestamp>>

\* PutItemCommand without a condition: the item takes the place of the item
\* with its key, if there is one.
PutItem(store, item) == {old \in store : Key(old) # Key(item)} \cup {item}

JobIds == {"J1", "J2"}

\* The notifications of the provider: the job of the X-Job-ID header and the
\* event.
Notifications == [jobId : JobIds, kind : {1, 6}]

Handled == ingestion.ingested["J1"] + ingestion.ingested["J2"] + ingestion.failed
              + Cardinality(ingestion.writing)

\* Date.now() moves on between any two steps, or does not.
Tick ==
    /\ ingestion.now < MaxClock
    /\ ingestion' = [ingestion EXCEPT !.now = @ + 1]
    /\ UNCHANGED <<jobVars, eventStore, response>>

\* writeEventToDynamoDB up to the await: the item with timestamp = Date.now().
BuildItem(notification) ==
    LET item == Item(notification.jobId, ingestion.now, EventKinds[notification.kind])
    IN  /\ Handled < MaxNotifications
        /\ item \notin ingestion.writing
        /\ ingestion' = [ingestion EXCEPT !.writing = @ \cup {item}]
        /\ UNCHANGED <<jobVars, eventStore, response>>

\* The PutItem of an invocation is done: the notification is ingested.
WriteEvent(item) ==
    /\ item \in ingestion.writing
    /\ eventStore' = PutItem(eventStore, item)
    /\ ingestion' = [ingestion EXCEPT !.writing = @ \ {item},
                                       !.ingested[item.jobId] = @ + 1]
    /\ UNCHANGED <<jobVars, response>>

\* The PutItem throws: the handler logs the error and goes on with the next
\* record.
WriteEventThrows(item) ==
    /\ item \in ingestion.writing
    /\ ingestion' = [ingestion EXCEPT !.writing = @ \ {item}, !.failed = @ + 1]
    /\ UNCHANGED <<jobVars, eventStore, response>>

NextIngest ==
    \/ Tick
    \/ \E notification \in Notifications : BuildItem(notification)
    \/ \E item \in ingestion.writing : WriteEvent(item)
    \/ \E item \in ingestion.writing : WriteEventThrows(item)

InitIngest ==
    /\ request = ValidBody
    /\ api = ApiStart
    /\ job = NoJob
    /\ schedules = {}
    /\ bucket = {}
    /\ inv = EmptyBag
    /\ env = EnvStart
    /\ eventStore = {}
    /\ ingestion = [now |-> 0, ingested |-> [j \in JobIds |-> 0], failed |-> 0,
                    writing |-> {}]
    /\ response = ResponseStart

SpecIngest == InitIngest /\ [][NextIngest]_vars

\* ------------------------------------ from the trigger to the stored event
\* Target.Input of the CreateScheduleCommand (email.ts 728-736): the event
\* the worker is invoked with.  It has no headers field.
TargetInput(jobId, email) ==
    [jobId |-> jobId, email |-> email, sender |-> "a@x", subject |-> "s",
     content |-> "c", attachments |-> <<>>, scheduleName |-> "trickle-" \o jobId \o "-0"]

\* An event with the optional headers of the EmailMessage interface (worker,
\* line 26), here one header holding the id of the job.
TargetInputWithHeader(jobId, email, name) ==
    [jobId |-> jobId, email |-> email, sender |-> "a@x", subject |-> "s",
     content |-> "c", attachments |-> <<>>, scheduleName |-> "trickle-" \o jobId \o "-0",
     headers |-> <<[name |-> name, value |-> jobId]>>]

\* sendEmail, lines 243-271: Content.Simple.Headers of the SendEmailCommand
\* are the entries of message.headers, if the message has any.
EmailHeaders(message) ==
    IF "headers" \in DOMAIN message
    THEN [k \in 1..Len(message.headers) |->
             [Name |-> message.headers[k].name, Value |-> message.headers[k].value]]
    ELSE <<>>

\* The mail object of the notifications of the provider about a message: the
\* headers of the message as sent, and the common ones.
Mail(message) ==
    LET custom == EmailHeaders(message)
    IN  [headers |-> <<[name |-> "From", value |-> message.sender],
                       [name |-> "To", value |-> message.email],
                       [name |-> "Subject", value |-> message.subject]>>
                     \o [k \in 1..Len(custom) |->
                            [name |-> custom[k].Name, value |-> custom[k].Value]],
         commonHeaders |-> [from |-> message.sender, to |-> message.email,
                            subject |-> message.subject]]

\* h.name.toLowerCase(), for the names of the headers above.
LowerCaseName(name) ==
    CASE name \in {"X-Job-ID", "x-job-id", "X-JOB-ID"} -> "x-job-id"
      [] name = "From" -> "from"
      [] name = "To" -> "to"
      [] name = "Subject" -> "subject"
      [] OTHER -> name

\* extractJobId, lines 155-171.
extractJobId(mail) ==
    LET found == SelectSeq(mail.headers, LAMBDA h : LowerCaseName(h.name) = "x-job-id")
    IN  IF found # <<>> THEN found[1].value
        ELSE IF "X-Job-ID" \in DOMAIN mail.commonHeaders
             THEN mail.commonHeaders["X-Job-ID"]
             ELSE "unknown"

\* The worker sends the message of its event: ses.send returns.
SendEmail ==
    /\ response.pc = "trigger"
    /\ response' = [response EXCEPT !.pc = "sent", !.mail = Mail(response.message)]
    /\ UNCHANGED <<jobVars, eventStore, ingestion>>

\* The provider emits a notification about the message.
Emit(kind) ==
    /\ response.pc = "sent"
    /\ response' = [response EXCEPT !.pc = "emitted", !.kind = kind]
    /\ UNCHANGED <<jobVars, eventStore, ingestion>>

\* processSESEvent: the item is written under the job id extracted.
ProcessSESEvent ==
    /\ response.pc = "emitted"
    /\ eventStore' = PutItem(eventStore,
                             Item(extractJobId(response.mail), ingestion.now,
                                  EventKinds[response.kind]))
    /\ response' = [response EXCEPT !.pc = "stored"]
    /\ UNCHANGED <<jobVars, ingestion>>

ProcessSESEventThrows ==
    /\ response.pc = "emitted"
    /\ response' = [response EXCEPT !.pc = "lost"]
    /\ UNCHANGED <<jobVars, eventStore, ingestion>>

NextDeliver ==
    \/ SendEmail
    \/ \E kind \in 1..Len(EventKinds) : Emit(kind)
    \/ ProcessSESEvent
    \/ ProcessSESEventThrows

\* The events the workers are invoked with: those of the triggers of send(),
\* and events that carry the header.
Messages ==
    {TargetInput(jobId, email) : jobId \in JobIds, email \in {"a@x", "b@x"}}
    \cup {TargetInputWithHeader(jobId, email, name) :
              jobId \in JobIds, email \in {"a@x", "b@x"},
              name \in {"X-Job-ID", "x-job-id", "X-JOB-ID", "X-Other"}}

InitDeliver ==
    /\ request = ValidBody
    /\ api = ApiStart
    /\ job = NoJob
    /\ schedules = {}
    /\ bucket = {}
    /\ inv = EmptyBag
    /\ env = EnvStart
    /\ eventStore = {}
    /\ ingestion = IngestionStart
    /\ \E message \in Messages :
           response = [pc |-> "trigger", message |-> message,
                       mail |-> Mail(message), kind |-> 0]

SpecDeliver == InitDeliver /\ [][NextDeliver]_vars

\* ------------------------------------------------------------------ properties
JobExists == job.status # "none"

\* Number of invocations, with multiplicity, among those of S.
NumberOf(S) == BagCardinality([r \in S |-> CopiesIn(r, inv)])

\* C1: at every observable state of a job the counters satisfy
\* 0 <= sent + failed <= totalRecipients, also when a trigger fires twice or
\* the worker is invoked again after it threw.
C1_CountersWithinTotal ==
    JobExists =>
        /\ 0 <= job.sent + job.failed
        /\ job.sent + job.failed <= job.totalRecipients

\* A write of the status attribute of the job.
StatusWrite ==
    \/ MarkFailed
    \/ \E r \in Invocations : Finalize(r) \/ FinalizeFailed(r)

\* C2: once the status of a job is completed, completed_with_errors or failed,
\* no later operation writes the status again, to another value or the same.
C2_TerminalWrittenOnce ==
    [][(JobExists /\ job.status \in Terminal) => ~StatusWrite]_vars

\* C3 as stated: the status is terminal if and only if
\* sent + failed = totalRecipients.
C3_TerminalIffAllCounted ==
    JobExists => (job.status \in Terminal <=> job.sent + job.failed = job.totalRecipients)

\* C3: a job whose status is completed or completed_with_errors has
\* sent + failed >= totalRecipients; the status becomes terminal some time
\* after the last counter update, and failed is also the status the
\* submission's rollback writes, whatever the counters are.
C3_FinalizedOnlyWhenAllCounted ==
    (JobExists /\ job.status \in {"completed", "completed_with_errors"}) =>
        job.sent + job.failed >= job.totalRecipients

C3_Finalized ==
    /\ job.status \in {"completed", "completed_with_errors"}
    /\ job.totalRecipients = 2
    /\ job.sent = 1
    /\ job.failed = 1

\* C4: completedAt is set exactly when the status is terminal, for each of
\* completed, completed_with_errors and failed.
C4_CompletedAtIffTerminal ==
    JobExists => (job.completedAt <=> job.status \in Terminal)

\* C5: a completed job has failed = 0 and a completed_with_errors job has
\* failed > 0.
C5_StatusAgreesWithFailed ==
    JobExists =>
        /\ job.status = "completed" => job.failed = 0
        /\ job.status = "completed_with_errors" => job.failed > 0

AllUpdated ==
    \A r \in Invocations : r.pc \notin {"send", "incrementSent", "incrementFailed"}

NoStoreThrew == \A r \in Invocations : ~r.storeThrew

\* C6: whatever the interleaving of the invocations of a job, once all of
\* them have performed their counter update (no call of the job store having
\* thrown), sent is the number of invocations whose send succeeded and failed
\* the number of those whose send failed: no update is lost.
C6_NoLostUpdate ==
    (JobExists /\ AllUpdated /\ NoStoreThrew) =>
        /\ job.sent = NumberOf({r \in Invocations : SendOk(r)})
        /\ job.failed = NumberOf({r \in Invocations : SendFailed(r)})

C6_TwoUpdated ==
    /\ AllUpdated /\ NoStoreThrew
    /\ BagCardinality(inv) = MaxInvocations
    /\ \E r \in Invocations : SendOk(r)
    /\ \E r \in Invocations : SendFailed(r)

\* C7: the send of one recipient is attempted at most 3 times; an attempt
\* after the first is made only when the attempt before it failed with a
\* retryable error; a successful attempt ends the loop.
C7_BoundedRetry ==
    \A r \in Invocations :
        /\ r.pc = "send" => r.attempt < 3
        /\ (r.pc = "send" /\ r.attempt > 0) => ClaimedRetryable(r.error)
        /\ SendOk(r) => r.pc # "send"

C7_ThirdAttempt ==
    \E r \in Invocations : r.pc = "send" /\ r.attempt = 2 /\ r.error = GatewayTimeout

\* C8: when the first attempt fails with an error that is not retryable, no
\* second attempt is made and the invocation increases failed by exactly 1 and
\* leaves sent alone.
C8_NotRetryableCountsFailed ==
    \A r \in Invocations :
        /\ (r.pc = "send" /\ r.attempt = 1) => ClaimedRetryable(r.error)
        /\ (r.outcome = "failed_attempt_1_not_retryable" /\ ~r.storeThrew) =>
              /\ r.pc # "send"
              /\ r.incSent = 0
              /\ r.incFailed = (IF r.pc = "incrementFailed" THEN 0 ELSE 1)

C8_CountedFailed ==
    \E r \in Invocations :
        /\ r.outcome = "failed_attempt_1_not_retryable" /\ ~r.storeThrew
        /\ r.pc \in {"finalizeFailed", "threw", "retried"}
        /\ job.failed >= 1

\* C9: when the attempts 1 and 2 fail with retryable errors and attempt 3
\* succeeds, the invocation increases sent by exactly 1, leaves failed alone
\* and writes no lastError.
C9_ThirdAttemptCountsSent ==
    \A r \in Invocations :
        (r.outcome = "ok_on_attempt_3" /\ ~r.storeThrew) =>
            /\ r.pc # "send"
            /\ r.incFailed = 0
            /\ ~r.wroteLastError
            /\ r.incSent = (IF r.pc = "incrementSent" THEN 0 ELSE 1)

C9_CountedSent ==
    \E r \in Invocations :
        /\ r.outcome = "ok_on_attempt_3" /\ ~r.storeThrew
        /\ r.pc \in {"finalize", "returned"}
        /\ job.sent >= 1

\* The recipients the specification names in a recipients field: the entries
\* between ';', without the spaces around them, the empty ones dropped, as a
\* set (compared character by character).
ClaimedRecipients(field) ==
    LET n == Len(field)
        IsEntry(i, j) ==
            /\ i = 1 \/ field[i - 1] = ";"
            /\ j = n \/ field[j + 1] = ";"
            /\ \A k \in i..j : field[k] # ";"
        IsCore(i, j, a, b) ==
            /\ field[a] # " " /\ field[b] # " "
            /\ \A k \in i..(a - 1) : field[k] = " "
            /\ \A k \in (b + 1)..j : field[k] = " "
    IN  { SubSeq(field, a, b) :
            <<a, b>> \in { <<a, b>> \in (1..n) \X (1..n) :
                             /\ a <= b
                             /\ \E i \in 1..a : \E j \in b..n :
                                   IsEntry(i, j) /\ IsCore(i, j, a, b) } }

\* C10: an accepted submission creates exactly one trigger per unique
\* recipient of the recipients field (split on ';', entries trimmed, empty
\* entries dropped, duplicates compared case-sensitively collapsed), and
\* totalRecipients is that number.
C10_OneTriggerPerUniqueRecipient ==
    api.statusCode = 200 =>
        /\ job.totalRecipients = Cardinality(ClaimedRecipients(request.recipients))
        /\ Cardinality(schedules) = job.totalRecipients
        /\ Cardinality({s.Name : s \in schedules}) = job.totalRecipients
        /\ {s.email : s \in schedules} = ClaimedRecipients(request.recipients)

C10_DuplicateCollapsed ==
    /\ api.statusCode = 200
    /\ request.recipients = AddrA \o <<";">> \o AddrA \o <<";">> \o AddrB
    /\ Cardinality(schedules) = 2


NoSideEffects == ~JobExists /\ bucket = {} /\ schedules = {}

\* The sender is none of the identities verified in SES, as an address or by
\* its domain, whatever the case of the letters.
Unverified(sender, identities) ==
    LET senderLower == ToLowerCase(sender)
        domain == Split(senderLower, "@")[Len(Split(senderLower, "@"))]
    IN  \A id \in identities :
            ToLowerCase(id) \notin {senderLower, domain, <<"@">> \o domain}

\* What the validation rejects, the sender's identity left aside.
InvalidBody(body) ==
    LET uniqueRecipients == ArrayFromSet(ParseRecipientList(body.recipients))
    IN  \/ <<>> \in {body.sender, body.recipients, body.subject, body.content}
        \/ ~validateEmail(body.sender)
        \/ validateSubject(body.subject) # "null"
        \/ validateContent(body.content) # "null"
        \/ Len(uniqueRecipients) = 0
        \/ Len(uniqueRecipients) > 1000
        \/ \E k \in 1..Len(uniqueRecipients) : ~validateEmail(uniqueRecipients[k])

\* C11 as stated: a submission with a missing field, a malformed or unverified
\* sender, a bad subject or content, or a deduplicated recipient list that is
\* empty, longer than 1000 or holds a malformed address, is answered 4xx and
\* has created no job, attachment or trigger.
C11_InvalidRejectedWithoutEffects ==
    (api.pc # "validate"
       /\ (InvalidBody(request) \/ Unverified(request.sender, env.identities))) =>
        (api.statusCode \in 400..499 /\ NoSideEffects)

\* C11: the same, the sender counting as unverified only when the listing of
\* the verified identities succeeded; and every submission answered 4xx has
\* created no job, attachment or trigger.
C11_RejectedWithoutEffects ==
    /\ api.statusCode \in 400..499 => NoSideEffects
    /\ (api.pc # "validate"
          /\ \/ InvalidBody(request)
             \/ ~env.listingThrows /\ Unverified(request.sender, env.identities)) =>
           (api.statusCode \in 400..499 /\ NoSideEffects)

C11_UnverifiedRejected ==
    /\ api.statusCode = 400
    /\ ~InvalidBody(request)
    /\ ~env.listingThrows
    /\ Unverified(request.sender, env.identities)


\* The submit operation has returned its error after the job was written.
RolledBack == api.pc = "done" /\ api.statusCode = 500 /\ JobExists

\* C12 as stated: when a step after the write of the job fails, then at the
\* return of the error a deletion was attempted for every trigger and
\* attachment created, and the status of the job is failed; and when 3 triggers
\* were created before the failure none of them remains.
C12_RolledBackAndFailed ==
    RolledBack =>
        /\ api.triedSchedules = api.createdSchedules
        /\ api.triedAttachments = api.attachmentKeys
        /\ job.status = "failed"
        /\ Len(api.createdSchedules) = 3 => schedules = {}

\* C12: the deletions were attempted for every trigger and attachment created
\* and the update to failed was attempted; the status is failed unless that
\* update threw, and no trigger or attachment remains unless a deletion threw.
C12_RollbackAttempted ==
    RolledBack =>
        /\ api.triedSchedules = api.createdSchedules
        /\ api.triedAttachments = api.attachmentKeys
        /\ ~api.markThrew => job.status = "failed"
        /\ ~api.cleanupThrew => (schedules = {} /\ bucket = {})

C12_ThreeTriggersRolledBack ==
    /\ RolledBack
    /\ Len(api.createdSchedules) = 3
    /\ Len(api.attachmentKeys) = 2
    /\ schedules = {} /\ bucket = {}
    /\ job.status = "failed"


\* The configured interval in milliseconds, 60 seconds when none is configured.
ConfiguredInterval == IF env.config = NoItem THEN 60000 ELSE env.config[1]

\* C13 as stated: the trigger of index i fires at submission time +
\* i * interval, and consecutive triggers are exactly one interval apart.
C13_FireTimeIsOffset ==
    /\ \A s \in schedules : s.at * 1000 = env.now + s.Name * ConfiguredInterval
    /\ \A s, t \in schedules :
          t.Name = s.Name + 1 => (t.at - s.at) * 1000 = ConfiguredInterval

\* C13: the trigger of index i fires at the whole second of submission time +
\* i * interval (the milliseconds cut off); when the interval is a whole number
\* of seconds, consecutive triggers are exactly one interval apart.
C13_FireTimeIsOffsetInSeconds ==
    /\ \A s \in schedules :
          /\ s.at * 1000 <= env.now + s.Name * ConfiguredInterval
          /\ env.now + s.Name * ConfiguredInterval < (s.at + 1) * 1000
    /\ ConfiguredInterval % 1000 = 0 =>
          \A s, t \in schedules :
              t.Name = s.Name + 1 => (t.at - s.at) * 1000 = ConfiguredInterval

C13_FourScheduled ==
    /\ api.statusCode = 200
    /\ Cardinality(schedules) = 4
    /\ env.now = 700
    /\ env.config = <<3600000>>
    /\ \E s \in schedules : s.Name = 3 /\ s.at = 3 * 3600


Classified(eventType) ==
    response.pc = "classified" /\ response.event.eventType = eventType

\* C14: the severity, category and requiresAction of a Bounce follow from its
\* bounce type alone: Permanent is critical, hard, action required; Transient
\* is warning, soft, no action; any other or no type is info, unknown, no
\* action; whatever the subtype and the diagnostic code.
C14_BounceByTypeAlone ==
    Classified("Bounce") =>
        LET bounceType == response.event.details.bounceType
            c == response.classification
            fields == <<c.severity, c.category, c.requiresAction>>
        IN  /\ bounceType = "Permanent" => fields = <<"critical", "hard", TRUE>>
            /\ bounceType = "Transient" => fields = <<"warning", "soft", FALSE>>
            /\ bounceType \notin {"Permanent", "Transient"} =>
                   fields = <<"info", "unknown", FALSE>>

C14_SuppressedIsHard ==
    /\ Classified("Bounce")
    /\ response.event.details.bounceType = "Permanent"
    /\ response.event.details.bounceSubType = "Suppressed"
    /\ response.classification.severity = "critical"
    /\ response.classification.interpretation = "Address is on your SES suppression list"

\* C15: the classification of an event that is no Bounce follows from its type
\* alone: Complaint is critical with action required; Reject is warning with
\* action required, whatever the reason; Delivery, Send, Open, Click,
\* DeliveryDelay and every other type are info with no action; none has a
\* category.
C15_OthersByTypeAlone ==
    (response.pc = "classified" /\ response.event.eventType # "Bounce") =>
        LET eventType == response.event.eventType
            c == response.classification
            fields == <<c.severity, c.requiresAction>>
        IN  /\ c.category = Undefined
            /\ eventType = "Complaint" => fields = <<"critical", TRUE>>
            /\ eventType = "Reject" => fields = <<"warning", TRUE>>
            /\ eventType \notin {"Complaint", "Reject"} => fields = <<"info", FALSE>>

C15_RejectWithoutKnownReason ==
    /\ Classified("Reject")
    /\ response.event.details.reason = <<"quota">>
    /\ response.classification.severity = "warning"
    /\ response.classification.requiresAction

\* logs() read its page of events and called the aggregator, which returned.
MetricsCalled == response.pc = "done" /\ response.queried

\* The aggregator returned what it computed from its Query.
MetricsComputed == response.pc = "done" /\ response.statusCode = 200 /\ ~response.metricsThrew

StoredEvents == ItemsOf(eventStore, response.jobId)

\* C16: the counts of the aggregator are the counts over all the events stored
\* for the job: hard bounces are the Bounce events of type Permanent, soft
\* bounces those of type Transient, complaints the Complaint events, rejects
\* the Reject events, and the total is the number of all the events of the job.
C16_CountsOverAllEvents ==
    MetricsComputed =>
        LET m == response.jobMetrics
        IN  /\ m.hardBounceCount = Cardinality({e \in StoredEvents : IsHardBounce(e)})
            /\ m.softBounceCount = Cardinality({e \in StoredEvents : IsSoftBounce(e)})
            /\ m.complaintCount = Cardinality({e \in StoredEvents : IsComplaint(e)})
            /\ m.rejectCount = Cardinality({e \in StoredEvents : IsReject(e)})
            /\ m.totalEventCount = Cardinality(StoredEvents)

\* C17: called with totalRecipients <= 0 the aggregator returns both rates as
\* 0 and no warning, whatever the events of the job, and no error occurs.
C17_NoRecipientsNoRates ==
    (MetricsCalled /\ response.totalRecipients <= 0) =>
        /\ response.statusCode = 200
        /\ response.jobMetrics.hardBounceRate.num = 0
        /\ response.jobMetrics.complaintRate.num = 0
        /\ response.jobMetrics.warnings = <<>>

C17_BouncesOfNoRecipients ==
    /\ MetricsComputed
    /\ response.totalRecipients = 0
    /\ response.jobMetrics.hardBounceCount = 2
    /\ response.jobMetrics.complaintCount = 1
    /\ response.jobMetrics.hardBounceRate.num = 0

Times(list, w) == Cardinality({k \in 1..Len(list) : list[k] = w})

\* C18: the warnings hold at most one string per metric: for the hard bounce
\* rate the critical one exactly when rate > 0.05, the mild one exactly when
\* 0.02 < rate <= 0.05; for the complaint rate the critical one exactly when
\* rate > 0.003, the mild one exactly when 0.001 < rate <= 0.003; nothing
\* else. 6 hard bounces of 100 recipients give the critical hard bounce
\* warning and not the mild one.
C18_OneWarningPerMetric ==
    MetricsCalled =>
        LET m == response.jobMetrics
            h == m.hardBounceRate
            c == m.complaintRate
            w == m.warnings
        IN  /\ response.totalRecipients > 0 =>
                   /\ h.num * response.totalRecipients = m.hardBounceCount * h.den
                   /\ c.num * response.totalRecipients = m.complaintCount * c.den
            /\ Times(w, "High hard bounce rate") = IF h.num * 100 > 5 * h.den THEN 1 ELSE 0
            /\ Times(w, "Hard bounce rate")
                   = IF h.num * 100 > 2 * h.den /\ h.num * 100 <= 5 * h.den THEN 1 ELSE 0
            /\ Times(w, "Critical: Spam complaint rate")
                   = IF c.num * 1000 > 3 * c.den THEN 1 ELSE 0
            /\ Times(w, "Complaint rate")
                   = IF c.num * 1000 > c.den /\ c.num * 1000 <= 3 * c.den THEN 1 ELSE 0
            /\ Len(w) = Times(w, "High hard bounce rate") + Times(w, "Hard bounce rate")
                            + Times(w, "Critical: Spam complaint rate")
                            + Times(w, "Complaint rate")
            /\ (response.totalRecipients = 100 /\ m.hardBounceCount = 6) =>
                   (Times(w, "High hard bounce rate") = 1 /\ Times(w, "Hard bounce rate") = 0)

C18_SixOfHundred ==
    /\ MetricsComputed
    /\ response.totalRecipients = 100
    /\ response.jobMetrics.hardBounceCount = 6
    /\ response.jobMetrics.warnings = <<"High hard bounce rate">>

\* C19: when the aggregator's read of the events fails it returns every count
\* and rate as 0 and no warning, and raises no error: the log query that
\* called it returns 200 with the events it had read.
C19_ReadFailureGivesZeroMetrics ==
    (MetricsCalled /\ response.metricsThrew) =>
        /\ response.jobMetrics = ZeroMetrics
        /\ response.jobMetrics.hardBounceRate.num = 0
        /\ response.jobMetrics.complaintRate.num = 0
        /\ response.statusCode = 200
        /\ response.events
               = ClassifiedEvents(Query(eventStore, response.jobId, FALSE, {response.limit}))

C19_EventsWithoutMetrics ==
    /\ response.pc = "done"
    /\ response.metricsThrew
    /\ response.statusCode = 200
    /\ Len(response.events) = 3
    /\ Cardinality({e \in StoredEvents : IsHardBounce(e)}) = 2
    /\ response.jobMetrics.hardBounceCount = 0

\* C20: the store of the events is append-only: every ingested notification
\* adds an event and no ingestion overwrites or removes a stored one, so the
\* events stored for a job are as many as the notifications ingested for it.
C20_StoredEqualsIngested ==
    \A jobId \in JobIds :
        Cardinality(ItemsOf(eventStore, jobId)) = ingestion.ingested[jobId]

\* The handler of the invocation has returned or thrown.
Ended(r) == r.pc \in {"returned", "threw", "retried"}

\* C21: every invocation increments exactly one counter of the job, by 1: sent
\* if and only if its send succeeded, failed if and only if its send failed,
\* whichever later step of the invocation fails.
C21_OneCounterPerInvocation ==
    \A r \in Invocations :
        Ended(r) =>
            /\ r.incSent + r.incFailed <= 1
            /\ r.incSent = 1 => SendOk(r)
            /\ r.incFailed = 1 => SendFailed(r)
            /\ ~r.storeThrew => r.incSent + r.incFailed = 1

\* The trigger of index i was processed: an invocation for it has updated a
\* counter of the job.
Processed(i) ==
    \E r \in Invocations : r.event.Name = i /\ r.incSent + r.incFailed >= 1

\* C22: a job is finalized only when all its recipients are accounted for:
\* when the status is completed or completed_with_errors, every one of the
\* totalRecipients triggers of the job has been processed by an invocation,
\* re-invocations and triggers firing twice included.
C22_FinalizedOnlyWhenAllProcessed ==
    (JobExists /\ job.status \in {"completed", "completed_with_errors"}) =>
        \A i \in 0..(job.totalRecipients - 1) : Processed(i)

Finalized == JobExists /\ job.status \in {"completed", "completed_with_errors"} /\ job.completedAt

\* C23: if the fan-out of the submission succeeds, every trigger fires and no
\* call of the Job Store fails, then, the worker invocations being weakly
\* fair, the job eventually is completed or completed_with_errors with
\* completedAt set.
C23_EventuallyFinalized ==
    (api.statusCode = 200) ~> (Finalized \/ \E r \in Invocations : r.storeThrew)

C23_FinalizedAfterFanOut ==
    /\ api.statusCode = 200
    /\ Finalized
    /\ job.totalRecipients = 2
    /\ job.sent = 1 /\ job.failed = 1
    /\ NoStoreThrew

\* A finalization write of a worker.
FinalizationWrite == \E r \in Invocations : Finalize(r) \/ FinalizeFailed(r)

\* C24: duplicate finalization is harmless: whatever the interleaving of the
\* invocations of a job, every finalization write writes the same status, so
\* a finalization write that lands on a finalized job leaves its status as it
\* is.
C24_FinalizationWritesAgree ==
    [][(FinalizationWrite /\ job.status \in {"completed", "completed_with_errors"})
           => job'.status = job.status]_vars

\* The invocation ended by throwing the error of its send.
RaisedSendError(r) == r.pc \in {"threw", "retried"} /\ ~r.storeThrew

\* C25 as stated: an invocation whose send failed ends by raising the error of
\* the send, after failed was incremented, lastError written and the
\* completion check made.
C25_RaisesSendErrorAfterBookkeeping ==
    \A r \in Invocations :
        (SendFailed(r) /\ Ended(r)) =>
            /\ RaisedSendError(r)
            /\ r.incFailed = 1 /\ r.wroteLastError /\ r.checked

\* C25: an invocation whose send failed ends by raising an error, never by
\* returning; when no Job Store call of its catch block threw, the error is
\* the one of the send and it is raised after failed was incremented by 1,
\* lastError written and the completion check made; when one threw, the
\* error is the store's.
C25_RaisesAfterBookkeeping ==
    \A r \in Invocations :
        (SendFailed(r) /\ Ended(r)) =>
            /\ r.pc \in {"threw", "retried"}
            /\ r.incSent = 0
            /\ RaisedSendError(r) => (r.incFailed = 1 /\ r.wroteLastError /\ r.checked)

C25_RaisedAfterCounting ==
    \E r \in Invocations :
        /\ SendFailed(r) /\ r.pc = "threw" /\ ~r.storeThrew
        /\ r.incFailed = 1 /\ r.wroteLastError /\ r.checked
        /\ job.failed >= 1
        /\ job.lastError = r.event.email

\* C26: in every invocation, the send having succeeded or failed, the deletion
\* of its trigger is attempted before a counter of the job is updated, and a
\* deletion that fails neither prevents the update nor changes the counter
\* that is incremented.
C26_DeleteBeforeCounter ==
    \A r \in Invocations :
        /\ r.pc \in {"incrementSent", "incrementFailed"} => r.deleteTried
        /\ r.incSent + r.incFailed >= 1 => r.deleteTried
        /\ (Ended(r) /\ ~r.storeThrew) =>
              /\ SendOk(r) => (r.incSent = 1 /\ r.incFailed = 0)
              /\ SendFailed(r) => (r.incSent = 0 /\ r.incFailed = 1)

C26_CountedThoughDeleteFailed ==
    \E r \in Invocations :
        /\ r.pc = "returned" /\ r.deleteThrew /\ SendOk(r)
        /\ r.incSent = 1
        /\ \E s \in schedules : s.Name = r.event.Name

C28_JobThenAttachmentsThenSchedules ==
    /\ (schedules # {} \/ bucket # {}) => JobExists
    /\ (api.pc \in {"upload", "updateJob"} \/ (api.pc = "createSchedule" /\ api.i = 0)) =>
          /\ JobExists /\ job.status = "pending"
          /\ job.sent = 0 /\ job.failed = 0
          /\ job.totalRecipients = Cardinality(Elems(ParseRecipientList(request.recipients)))
    /\ api.pc \in {"putJob", "upload", "updateJob"} => schedules = {}
    /\ api.pc \in {"putJob"} => bucket = {}
    /\ \A s \in schedules :
          /\ s.attachments = request.attachments
          /\ s.attachments = job.attachments
    /\ api.pc = "createSchedule" => \A k \in Elems(request.attachments) : k \in bucket

C28_AllKeysInEveryPayload ==
    /\ api.statusCode = 200
    /\ Cardinality(schedules) = 4
    /\ job.attachments = <<"f", "g">>
    /\ \A s \in schedules : s.attachments = <<"f", "g">>
    /\ bucket = {"f", "g"}

\* C29: a job whose fan-out failed never has a mail sent for it: when the
\* status is failed, sent = 0 and failed = 0 and no worker invocation of the
\* job has run, the first trigger firing during the fan-out included.
C29_FailedJobSentNothing ==
    (JobExists /\ job.status = "failed") =>
        /\ job.sent = 0 /\ job.failed = 0
        /\ inv = EmptyBag

\* C30: every event the provider emits about a message the worker sent for a
\* job, from the payload of a trigger of send(), is stored under the id of
\* that job and never under "unknown".
C30_StoredUnderItsJob ==
    (response.pc = "stored" /\ response.message \in
         {TargetInput(jobId, email) : jobId \in JobIds, email \in {"a@x", "b@x"}}) =>
        \A item \in eventStore : item.jobId = response.message.jobId

====
